---- MODULE Spec2Model ----
(***************************************************************************)
(* Model of P-4-Recognizer/my_model_selectors.py: the four model-selection *)
(* strategies SelectorConstant, SelectorBIC, SelectorDIC and SelectorCV.   *)
(*                                                                         *)
(* One selector object is constructed (Init) and select() is called on it. *)
(* select() is executed statement by statement: pc is the position in the  *)
(* body of select(), the other lower-case variables are its locals.        *)
(*                                                                         *)
(* The fitter (GaussianHMM.fit), the scorer (GaussianHMM.score) and the    *)
(* partitioner (KFold) are external and deterministic (fixed random_state, *)
(* fixed data).  Their outcome for a given argument is drawn the first     *)
(* time the code asks for it and remembered in fitMemo, scoreMemo,         *)
(* otherMemo and cvMemo, so that a second call with the same argument      *)
(* gets the same answer.                                                   *)
(*                                                                         *)
(* Log-likelihoods are integers in units of 1/1000 (np.log is tabulated in *)
(* the same unit), and every drawn log-likelihood is a multiple of 6 so    *)
(* that the average over 2 or 3 folds is exact.                            *)
(***************************************************************************)
EXTENDS Integers, Sequences, FiniteSets, TLC

\* Bounds of the model.
MaxN == 2        \* state counts (n_constant, min/max_n_components) are 1..MaxN
MaxSeq == 3      \* a category has 1..MaxSeq example sequences
MaxWords == 2    \* the corpus has 1..MaxWords categories
MaxCalls == 2    \* select() is called at most MaxCalls times on the selector

StateCounts == 1 .. MaxN
Classes == {"SelectorConstant", "SelectorBIC", "SelectorDIC", "SelectorCV"}
Searching == {"SelectorBIC", "SelectorDIC", "SelectorCV"}
Dims == {1, 2}                    \* feature dimensionality len(self.X[0])
LogLs == {-2745, -1002, 0}        \* log-likelihoods a full-data model can score
FoldLogLs == {-1002, 0}           \* log-likelihoods on a held-out fold

VARIABLES
    cls,           \* the class of the selector object
    self,          \* the fields set by ModelSelector.__init__
    fitMemo,       \* outcome of GaussianHMM(n).fit(self.X, self.lengths), per n
    scoreMemo,     \* outcome of model(n).score(self.X, self.lengths), per n
    otherMemo,     \* outcome of model(n).score(*self.hwords[word]), per n, word
    cvMemo,        \* outcome of fit on the train split + score on the test split
    pc,            \* position in select()
    n_components, word, fold, splits, scores,
    best_score, best_model, base_hmm,
    ret,           \* value returned by the last completed select()
    calls,         \* number of select() calls started
    firstRet       \* value returned by the first select()

memos == <<fitMemo, scoreMemo, otherMemo, cvMemo>>
vars == <<cls, self, fitMemo, scoreMemo, otherMemo, cvMemo, pc,
          n_components, word, fold, splits, scores, best_score, best_model,
          base_hmm, ret, calls, firstRet>>

-----------------------------------------------------------------------------
\* Values

\* A fitted model: its number of hidden states and the data it was fitted on
\* (data = 0: self.X, the whole category; data = f > 0: the training split of
\* fold f).  None is Python's None.
Model(n, data) == [n_components |-> n, data |-> data]
None == [n_components |-> 0, data |-> 0]

\* float("Inf"), float("-Inf") and finite scores.
PosInf == [inf |-> 1, v |-> 0]
NegInf == [inf |-> -1, v |-> 0]
Fin(x) == [inf |-> 0, v |-> x]
Less(a, b) == IF a.inf # b.inf THEN a.inf < b.inf ELSE a.inf = 0 /\ a.v < b.v

\* Outcomes of a scoring call.
Unknown == [tag |-> "unknown", logL |-> 0]
ScoreError == [tag |-> "ScoreError", logL |-> 0]
FitError == [tag |-> "FitError", logL |-> 0]
Ok(x) == [tag |-> "ok", logL |-> x]

\* np.log(N) in units of 1/1000.
LogMilli == <<0, 693, 1098, 1386, 1609, 1791>>

RECURSIVE SumSeq(_)
SumSeq(s) == IF s = <<>> THEN 0 ELSE Head(s) + SumSeq(Tail(s))

\* np.average(scores) of a non-empty list.
Average(s) == SumSeq(s) \div Len(s)

Min(a, b) == IF a < b THEN a ELSE b

\* The cap on the number of cross-validation folds, min(3, ...).
MaxSplits == 3

-----------------------------------------------------------------------------
\* ModelSelector.__init__

NewSelector(nwords, numSeq, dim, nc, mn, mx) ==
    [words |-> 1 .. nwords,
     hwords |-> 1 .. nwords,
     sequences |-> numSeq,
     X |-> [len |-> numSeq, dim |-> dim],
     lengths |-> [i \in 1 .. numSeq |-> 1],
     this_word |-> 1,
     n_constant |-> nc,
     min_n_components |-> mn,
     max_n_components |-> mx,
     random_state |-> 14,
     verbose |-> FALSE]

\* The corpora each class is exercised with: the searching strategies read
\* different parts of the data (BIC: len(X) and len(X[0]); DIC: the other
\* words; CV: the number of sequences).
Corpora(c) ==
    CASE c = "SelectorConstant" -> {<<1, 1, 1>>}
      [] c = "SelectorBIC" -> {<<1, s, d>> : s \in 1 .. MaxSeq, d \in Dims}
      [] c = "SelectorDIC" -> {<<w, 1, 1>> : w \in 1 .. MaxWords}
      [] c = "SelectorCV" -> {<<1, s, 1>> : s \in 1 .. MaxSeq}

Init ==
    /\ cls \in Classes
    /\ \E corpus \in Corpora(cls), nc \in StateCounts, mn \in StateCounts, mx \in StateCounts :
          self = NewSelector(corpus[1], corpus[2], corpus[3], nc, mn, mx)
    /\ fitMemo = [n \in StateCounts |-> "unknown"]
    /\ scoreMemo = [n \in StateCounts |-> Unknown]
    /\ otherMemo = [n \in StateCounts |-> [w \in 1 .. MaxWords |-> Unknown]]
    /\ cvMemo = [n \in StateCounts |-> [f \in 1 .. MaxSplits |-> Unknown]]
    /\ pc = "idle"
    /\ n_components = 0 /\ word = 0 /\ fold = 0 /\ splits = 0 /\ scores = <<>>
    /\ best_score = Fin(0) /\ best_model = None /\ base_hmm = None
    /\ ret = None
    /\ calls = 0
    /\ firstRet = None

-----------------------------------------------------------------------------
\* Helpers shared by the select() bodies

\* InTry with the try of SelectorDIC.select closed before the dic_score
\* statement.
InTryDICMut(c, line) ==
    CASE c = "SelectorBIC" -> 84 <= line /\ line <= 95
      [] c = "SelectorDIC" -> 118 <= line /\ line <= 125
      [] c = "SelectorCV" -> 149 <= line /\ line <= 163
      [] OTHER -> FALSE

\* InTry with the try of SelectorCV.select opened after the KFold construction.
InTryCVMut(c, line) ==
    CASE c = "SelectorBIC" -> 84 <= line /\ line <= 95
      [] c = "SelectorDIC" -> 118 <= line /\ line <= 130
      [] c = "SelectorCV" -> 152 <= line /\ line <= 163
      [] OTHER -> FALSE

\* Whether a statement of class c's select() at source line `line` lies in the
\* body of the try statement of that select().
InTry(c, line) ==
    CASE c = "SelectorBIC" -> 84 <= line /\ line <= 95
      [] c = "SelectorDIC" -> 118 <= line /\ line <= 130
      [] c = "SelectorCV" -> 149 <= line /\ line <= 163
      [] OTHER -> FALSE

\* Where control goes when the statement at `line` raises: to the bare except
\* clause when the statement is inside the try, out to the caller otherwise.
Raise(c, line) == IF InTry(c, line) THEN "except" ELSE "raised"

\* ModelSelector.base_model(num_states), given the fitter's outcome: the fitted
\* model, or None when fit raised (the bare except in base_model).
base_model(num_states, outcome) ==
    IF outcome = "ok" THEN Model(num_states, 0) ELSE None

\* The fitter's outcome for n states on self.X: any outcome the first time,
\* the remembered one afterwards.
FitDraw(n, o) == o \in {"ok", "FitError"} /\ fitMemo[n] \in {"unknown", o}

ScoreDraw(memo, o) ==
    /\ o \in {ScoreError} \cup {Ok(x) : x \in LogLs}
    /\ memo \in {Unknown, o}

FoldDraw(memo, o) ==
    /\ o \in {FitError, ScoreError} \cup {Ok(x) : x \in FoldLogLs}
    /\ memo \in {Unknown, o}

\* KFold(n_splits=k, ...) raises ValueError for k < 2: k-fold cross-validation
\* needs at least one train/test split.
KFoldRaises(k) == k < 2

\* select() is entered: on a fresh selector or after an earlier call returned.
Enter(c) ==
    /\ cls = c
    /\ pc \in {"idle", "done"}
    /\ calls < MaxCalls
    /\ calls' = calls + 1

\* select() returns value: the locals are gone.
Finish(value) ==
    /\ pc' = "done"
    /\ ret' = value
    /\ firstRet' = IF calls = 1 THEN value ELSE firstRet
    /\ n_components' = 0 /\ word' = 0 /\ fold' = 0 /\ splits' = 0 /\ scores' = <<>>
    /\ best_score' = Fin(0) /\ best_model' = None /\ base_hmm' = None

-----------------------------------------------------------------------------
\* SelectorConstant.select

ConstantSelect ==
    /\ Enter("SelectorConstant")
    /\ \E o \in {"ok", "FitError"} :
          /\ FitDraw(self.n_constant, o)
          /\ fitMemo' = [fitMemo EXCEPT ![self.n_constant] = o]
          /\ Finish(base_model(self.n_constant, o))
    /\ UNCHANGED <<cls, self, scoreMemo, otherMemo, cvMemo>>

-----------------------------------------------------------------------------
\* SelectorBIC.select

\* p = n * n + 2 * n * len(self.X[0]) - 1
BICParams(n, d) == n * n + 2 * n * d - 1

\* score = -2 * logL + p * logN
BICScore(logL, n) == -2 * logL + BICParams(n, self.X.dim) * LogMilli[self.X.len]

\* BICBetter with <= for <.
BICBetterMut(score, best) == Less(score, best) \/ score = best

\* if score < best_score
BICBetter(score, best) == Less(score, best)

BICStart ==
    /\ Enter("SelectorBIC")
    /\ best_score' = PosInf
    /\ best_model' = None
    /\ n_components' = self.min_n_components
    /\ pc' = "loop"
    /\ UNCHANGED <<cls, self, memos, word, fold, splits, scores, base_hmm, ret, firstRet>>

\* One pass through the body of the for loop.  A None base_hmm makes
\* base_hmm.score raise AttributeError.
BICIter ==
    /\ cls = "SelectorBIC" /\ pc = "loop"
    /\ n_components <= self.max_n_components
    /\ \E o \in {"ok", "FitError"} :
          /\ FitDraw(n_components, o)
          /\ fitMemo' = [fitMemo EXCEPT ![n_components] = o]
          /\ base_hmm' = base_model(n_components, o)
          /\ IF base_hmm' = None
             THEN /\ pc' = Raise(cls, 86)
                  /\ UNCHANGED <<scoreMemo, best_score, best_model, n_components>>
             ELSE \E s \in {ScoreError} \cup {Ok(x) : x \in LogLs} :
                     /\ ScoreDraw(scoreMemo[n_components], s)
                     /\ scoreMemo' = [scoreMemo EXCEPT ![n_components] = s]
                     /\ IF s = ScoreError
                        THEN /\ pc' = Raise(cls, 86)
                             /\ UNCHANGED <<best_score, best_model, n_components>>
                        ELSE LET score == Fin(BICScore(s.logL, n_components)) IN
                             /\ IF BICBetter(score, best_score)
                                THEN best_score' = score /\ best_model' = base_hmm'
                                ELSE UNCHANGED <<best_score, best_model>>
                             /\ n_components' = n_components + 1
                             /\ pc' = "loop"
    /\ UNCHANGED <<cls, self, otherMemo, cvMemo, word, fold, splits, scores,
                   ret, calls, firstRet>>

\* return best_model, after the loop
BICReturn ==
    /\ cls = "SelectorBIC" /\ pc = "loop"
    /\ n_components > self.max_n_components
    /\ Finish(best_model)
    /\ UNCHANGED <<cls, self, memos, calls>>

-----------------------------------------------------------------------------
\* SelectorDIC.select

DICStart ==
    /\ Enter("SelectorDIC")
    /\ best_score' = NegInf
    /\ best_model' = None
    /\ n_components' = self.min_n_components
    /\ pc' = "loop"
    /\ UNCHANGED <<cls, self, memos, word, fold, splits, scores, base_hmm, ret, firstRet>>

\* base_hmm = self.base_model(n_components); score = base_hmm; scores = []
DICFit ==
    /\ cls = "SelectorDIC" /\ pc = "loop"
    /\ n_components <= self.max_n_components
    /\ \E o \in {"ok", "FitError"} :
          /\ FitDraw(n_components, o)
          /\ fitMemo' = [fitMemo EXCEPT ![n_components] = o]
          /\ base_hmm' = base_model(n_components, o)
    /\ scores' = <<>>
    /\ word' = 1
    /\ pc' = "others"
    /\ UNCHANGED <<cls, self, scoreMemo, otherMemo, cvMemo, n_components, fold,
                   splits, best_score, best_model, ret, calls, firstRet>>

\* One pass through `for word in self.words`: this_word is skipped, any other
\* word is scored with base_hmm (AttributeError when base_hmm is None).
DICOther ==
    /\ cls = "SelectorDIC" /\ pc = "others"
    /\ word \in self.words
    /\ IF word = self.this_word
       THEN /\ word' = word + 1
            /\ UNCHANGED <<otherMemo, scores, pc>>
       ELSE IF base_hmm = None
       THEN /\ pc' = Raise(cls, 125)
            /\ UNCHANGED <<otherMemo, scores, word>>
       ELSE \E s \in {ScoreError} \cup {Ok(x) : x \in LogLs} :
               /\ ScoreDraw(otherMemo[n_components][word], s)
               /\ otherMemo' = [otherMemo EXCEPT ![n_components][word] = s]
               /\ IF s = ScoreError
                  THEN pc' = Raise(cls, 125) /\ UNCHANGED <<scores, word>>
                  ELSE /\ scores' = Append(scores, s.logL)
                       /\ word' = word + 1
                       /\ pc' = "others"
    /\ UNCHANGED <<cls, self, fitMemo, scoreMemo, cvMemo, n_components, fold,
                   splits, best_score, best_model, base_hmm, ret, calls, firstRet>>

\* dic_score = score - np.mean(base_hmm): score was bound to base_hmm, a model
\* object or None, not to a number, and np.mean is applied to that object, not
\* to scores.  Neither the mean of a model object nor `model - x` is defined:
\* the statement raises TypeError for every base_hmm, so the comparison and
\* the update of best_model after it are never reached.
DICCombine ==
    /\ cls = "SelectorDIC" /\ pc = "others"
    /\ word \notin self.words
    /\ pc' = Raise(cls, 126)
    /\ UNCHANGED <<cls, self, memos, n_components, word, fold, splits, scores,
                   best_score, best_model, base_hmm, ret, calls, firstRet>>

\* return best_model, after the loop
DICReturn ==
    /\ cls = "SelectorDIC" /\ pc = "loop"
    /\ n_components > self.max_n_components
    /\ Finish(best_model)
    /\ UNCHANGED <<cls, self, memos, calls>>

-----------------------------------------------------------------------------
\* SelectorCV.select

\* CVBetter with >= for >.
CVBetterMut(score, best) == Less(best, score) \/ score = best

\* if score > best_score
CVBetter(score, best) == Less(best, score)

CVStart ==
    /\ Enter("SelectorCV")
    /\ best_score' = NegInf
    /\ best_model' = None
    /\ splits' = Min(MaxSplits, self.sequences)
    /\ n_components' = self.min_n_components
    /\ pc' = "loop"
    /\ UNCHANGED <<cls, self, memos, word, fold, scores, base_hmm, ret, firstRet>>

\* kf = KFold(n_splits=splits, random_state=self.random_state); scores = []
CVKFold ==
    /\ cls = "SelectorCV" /\ pc = "loop"
    /\ n_components <= self.max_n_components
    /\ IF KFoldRaises(splits)
       THEN pc' = Raise(cls, 150) /\ UNCHANGED <<scores, fold>>
       ELSE scores' = <<>> /\ fold' = 1 /\ pc' = "folds"
    /\ UNCHANGED <<cls, self, memos, n_components, word, splits, best_score, best_model,
                   base_hmm, ret, calls, firstRet>>

\* One pass through `for train_idx, test_idx in kf.split(self.sequences)`: fit
\* on the training split (GaussianHMM(...).fit called directly, so a failure
\* raises), score the test split.
CVFoldStep(selfAfter) ==
    /\ cls = "SelectorCV" /\ pc = "folds"
    /\ fold <= splits
    /\ \E o \in {FitError, ScoreError} \cup {Ok(x) : x \in FoldLogLs} :
          /\ FoldDraw(cvMemo[n_components][fold], o)
          /\ cvMemo' = [cvMemo EXCEPT ![n_components][fold] = o]
          /\ IF o = FitError
             THEN pc' = Raise(cls, 155) /\ UNCHANGED <<base_hmm, scores, fold>>
             ELSE /\ base_hmm' = Model(n_components, fold)
                  /\ IF o = ScoreError
                     THEN pc' = Raise(cls, 157) /\ UNCHANGED <<scores, fold>>
                     ELSE /\ scores' = Append(scores, o.logL)
                          /\ fold' = fold + 1
                          /\ pc' = "folds"
    /\ self' = selfAfter
    /\ UNCHANGED <<cls, fitMemo, scoreMemo, otherMemo, n_components, word,
                   splits, best_score, best_model, ret, calls, firstRet>>

\* CVFold fitting through self.base_model after overwriting self.X and
\* self.lengths with the training split.
CVFoldMut ==
    CVFoldStep([self EXCEPT !.X = [len |-> self.sequences - 1, dim |-> self.X.dim],
                            !.lengths = [i \in 1 .. self.sequences - 1 |-> 1]])

\* The fold leaves the selector's fields alone: x_train and train_len are
\* locals, and the model is fitted with GaussianHMM directly.
CVFold == CVFoldStep(self)

\* score = np.average(scores); if score > best_score: ...
CVAverage ==
    /\ cls = "SelectorCV" /\ pc = "folds"
    /\ fold > splits
    /\ LET score == Fin(Average(scores)) IN
          IF CVBetter(score, best_score)
          THEN best_score' = score /\ best_model' = base_hmm
          ELSE UNCHANGED <<best_score, best_model>>
    /\ n_components' = n_components + 1
    /\ pc' = "loop"
    /\ UNCHANGED <<cls, self, memos, word, fold, splits, scores, base_hmm, ret, calls,
                   firstRet>>

\* return best_model, after the loop
CVReturn ==
    /\ cls = "SelectorCV" /\ pc = "loop"
    /\ n_components > self.max_n_components
    /\ Finish(best_model)
    /\ UNCHANGED <<cls, self, memos, calls>>

-----------------------------------------------------------------------------
\* except: return self.base_model(self.n_constant)   (BIC, DIC and CV alike)

FallbackWith(num_states) ==
    /\ pc = "except"
    /\ \E o \in {"ok", "FitError"} :
          /\ FitDraw(num_states, o)
          /\ fitMemo' = [fitMemo EXCEPT ![num_states] = o]
          /\ Finish(base_model(num_states, o))
    /\ UNCHANGED <<cls, self, scoreMemo, otherMemo, cvMemo, calls>>

\* Fallback to the first candidate instead of n_constant.
FallbackMut == FallbackWith(self.min_n_components)

Fallback == FallbackWith(self.n_constant)

-----------------------------------------------------------------------------

Next ==
    \/ ConstantSelect
    \/ BICStart \/ BICIter \/ BICReturn
    \/ DICStart \/ DICFit \/ DICOther \/ DICCombine \/ DICReturn
    \/ CVStart \/ CVKFold \/ CVFold \/ CVAverage \/ CVReturn
    \/ Fallback

Spec == Init /\ [][Next]_vars

\* select() runs to its end once called.
FairSpec == Spec /\ WF_vars(Next)

-----------------------------------------------------------------------------
\* Properties

Range == self.min_n_components .. self.max_n_components
Returned == pc = "done"
Running == pc \notin {"idle", "done", "raised"}

\* C1: select() of each of the four strategies, under every pattern of fitter,
\* scorer and partitioner failures, never lets an exception escape to the
\* caller, and once called it runs on until it has returned a value.
C1_SelectNeverRaises ==
    /\ [](pc # "raised")
    /\ [](Running => <>Returned)

\* A scoring call on a held-out fold raised and select() returned all the same.
C1_Witness ==
    /\ Returned /\ cls = "SelectorCV"
    /\ \E n \in StateCounts, f \in 1 .. MaxSplits : cvMemo[n][f] = ScoreError

\* C2: the value returned by select() is a non-null model whose number of
\* states is in [min_n_components, max_n_components] or is n_constant, and for
\* SelectorConstant it is a model with exactly n_constant states.
C2_ReturnsModelInRange ==
    Returned =>
        /\ ret # None
        /\ ret.n_components \in Range \cup {self.n_constant}
        /\ cls = "SelectorConstant" => ret.n_components = self.n_constant

\* BIC(n) = -2 * logL(n) + p(n) * log(N), p(n) = n^2 + 2*n*d - 1.
BIC(n) ==
    -2 * scoreMemo[n].logL + (n * n + 2 * n * self.X.dim - 1) * LogMilli[self.X.len]

\* Among the candidates in S, the smallest one of minimal BIC.
ArgMinBIC(S) ==
    CHOOSE n \in S : \A m \in S : BIC(n) < BIC(m) \/ (BIC(n) = BIC(m) /\ n <= m)

AllFitAndScore == \A n \in Range : fitMemo[n] = "ok" /\ scoreMemo[n].tag = "ok"

\* C3: when every candidate of a non-empty range fits and scores,
\* SelectorBIC.select() returns the model fitted at the n of minimal BIC, the
\* smallest such n when several candidates have the minimal BIC.
C3_BICSelectsMinimum ==
    (Returned /\ cls = "SelectorBIC" /\ Range # {} /\ AllFitAndScore)
        => ret = Model(ArgMinBIC(Range), 0)

\* Two candidates of equal BIC under a non-zero penalty: the first is returned.
C3_Witness ==
    /\ Returned /\ cls = "SelectorBIC" /\ AllFitAndScore
    /\ self.min_n_components < self.max_n_components
    /\ LogMilli[self.X.len] > 0
    /\ BIC(self.min_n_components) = BIC(self.max_n_components)
    /\ ret = Model(self.min_n_components, 0)

\* The candidates that fitted and scored.
Fitted == {n \in Range : fitMemo[n] = "ok" /\ scoreMemo[n].tag = "ok"}

\* C4: when fitting fails for some candidate and succeeds for another,
\* SelectorBIC.select() skips the failed candidate only and returns the
\* minimum-BIC model among the candidates that fitted.
C4_BICSkipsFailedCandidate ==
    (/\ Returned /\ cls = "SelectorBIC"
     /\ \A n \in Range : fitMemo[n] = "FitError" \/ n \in Fitted
     /\ \E n \in Range : fitMemo[n] = "FitError"
     /\ Fitted # {})
        => ret = Model(ArgMinBIC(Fitted), 0)

Others == self.words \ {self.this_word}

RECURSIVE SumOthers(_, _)
SumOthers(n, W) ==
    IF W = {} THEN 0
    ELSE LET w == CHOOSE x \in W : TRUE IN otherMemo[n][w].logL + SumOthers(n, W \ {w})

\* DIC(n) = logL_own(n) - mean over the other words of logL_other(n), times the
\* number of other words (a positive factor, which keeps the order and the
\* arithmetic in the integers).
DIC(own, n) == own[n] * Cardinality(Others) - SumOthers(n, Others)

ArgMaxDIC(own) ==
    CHOOSE n \in Range :
        \A m \in Range : DIC(own, n) > DIC(own, m) \/ (DIC(own, n) = DIC(own, m) /\ n <= m)

\* C5: when every candidate fits, every score on another word succeeds and
\* there is another word, SelectorDIC.select() returns the model fitted at the
\* n of maximal DIC, the smallest such n on ties.  select() never asks for
\* logL_own, so the statement is made for whatever values it may have.
C5_DICSelectsMaximum ==
    (/\ Returned /\ cls = "SelectorDIC" /\ Range # {} /\ Others # {}
     /\ \A n \in Range : fitMemo[n] = "ok" /\ \A w \in Others : otherMemo[n][w].tag = "ok")
        => \E own \in [Range -> LogLs] : ret = Model(ArgMaxDIC(own), 0)

\* No fold fit and no held-out scoring has raised.
NoFoldFailure ==
    \A n \in StateCounts, f \in 1 .. MaxSplits : cvMemo[n][f].tag \in {"unknown", "ok"}

\* The folds candidate n was scored on.
FoldsOf(n) == {f \in 1 .. MaxSplits : cvMemo[n][f].tag = "ok"}

RECURSIVE SumFolds(_, _)
SumFolds(n, F) ==
    IF F = {} THEN 0
    ELSE LET f == CHOOSE x \in F : TRUE IN cvMemo[n][f].logL + SumFolds(n, F \ {f})

\* The average held-out log-likelihood of candidate n over k folds, times k.
HeldOut(n, k) == SumFolds(n, 1 .. k)

ArgMaxCV(k) ==
    CHOOSE n \in Range :
        \A m \in Range : HeldOut(n, k) > HeldOut(m, k) \/ (HeldOut(n, k) = HeldOut(m, k) /\ n <= m)

\* What C6 and its amended form conclude: every candidate was scored on
\* exactly k = min(3, number of sequences) folds, and the returned model has
\* the smallest state count of maximal average held-out log-likelihood.
CVSelectsMaximum ==
    LET k == IF self.sequences < 3 THEN self.sequences ELSE 3 IN
    /\ \A n \in Range : FoldsOf(n) = 1 .. k
    /\ ret # None
    /\ ret.n_components = ArgMaxCV(k)

\* C6 as stated: whenever all fold fits and held-out scorings succeed,
\* SelectorCV.select() uses k = min(3, number of sequences) folds per candidate
\* and returns a model with the state count of maximal average held-out score.
C6_Original ==
    (Returned /\ cls = "SelectorCV" /\ Range # {} /\ NoFoldFailure)
        => CVSelectsMaximum

\* C6, amended: the same for a category with at least two sequences.
C6_CVSelectsMaximum ==
    (Returned /\ cls = "SelectorCV" /\ Range # {} /\ NoFoldFailure /\ self.sequences >= 2)
        => CVSelectsMaximum

\* Three folds, two candidates of equal average made of different fold scores:
\* the first candidate's model is returned.
C6_Witness ==
    /\ Returned /\ cls = "SelectorCV" /\ NoFoldFailure
    /\ self.sequences >= 3
    /\ self.min_n_components < self.max_n_components
    /\ HeldOut(self.min_n_components, 3) = HeldOut(self.max_n_components, 3)
    /\ cvMemo[self.min_n_components] # cvMemo[self.max_n_components]
    /\ ret.n_components = self.min_n_components

\* The fitter stub of C7, as far as it has been asked: every fit with
\* n # n_constant states failed and every fit with n_constant states succeeded.
StubFitter ==
    \A n \in StateCounts :
        /\ fitMemo[n] = "FitError" => n # self.n_constant
        /\ fitMemo[n] = "ok" => n = self.n_constant
        /\ \A f \in 1 .. MaxSplits :
              /\ cvMemo[n][f] = FitError => n # self.n_constant
              /\ cvMemo[n][f].tag \in {"ok", "ScoreError"} => n = self.n_constant

\* What SelectorConstant.select() returns under the stub.
ConstantModel == Model(self.n_constant, 0)

\* C7 as stated: under the stub, SelectorBIC, SelectorDIC and SelectorCV return
\* the model SelectorConstant returns, for every (non-empty) range.
C7_Original ==
    (Returned /\ cls \in Searching /\ Range # {} /\ StubFitter)
        => ret = ConstantModel

\* C7, amended: under the stub the three strategies return a model with
\* n_constant states, and it is SelectorConstant's model except when
\* SelectorCV searches the range [n_constant, n_constant], where it may be the
\* model fitted on the last fold's training split.
C7_FallbackConverges ==
    (Returned /\ cls \in Searching /\ Range # {} /\ StubFitter)
        => /\ ret.n_components = self.n_constant
           /\ \/ ret = ConstantModel
              \/ /\ cls = "SelectorCV"
                 /\ self.min_n_components = self.n_constant
                 /\ self.max_n_components = self.n_constant

\* A candidate other than n_constant failed to fit and the fallback returned
\* the model of SelectorConstant although n_constant is outside the range.
C7_Witness ==
    /\ Returned /\ cls \in Searching /\ Range # {} /\ StubFitter
    /\ self.n_constant \notin Range
    /\ \E n \in Range : fitMemo[n] = "FitError" \/ cvMemo[n][1] = FitError
    /\ ret = ConstantModel

\* C8: select() of a searching strategy constructed with
\* min_n_components > max_n_components does not return a result to the caller.
C8_InvalidRangeSurfaced ==
    ~(Returned /\ cls \in Searching /\ self.min_n_components > self.max_n_components)

\* C9: on a category with exactly one sequence SelectorCV.select() does not
\* raise, and with a non-empty range it returns the constant fallback
\* base_model(n_constant) without having fitted any fold.
C9_SingleSequenceCV ==
    (cls = "SelectorCV" /\ self.sequences = 1)
        => /\ pc # "raised"
           /\ (Returned /\ Range # {})
                 => /\ fitMemo[self.n_constant] # "unknown"
                    /\ ret = base_model(self.n_constant, fitMemo[self.n_constant])
                    /\ \A n \in StateCounts : FoldsOf(n) = {}

\* One sequence: the fallback fitted n_constant and its model was returned.
C9_Witness ==
    /\ Returned /\ cls = "SelectorCV" /\ self.sequences = 1 /\ Range # {}
    /\ ret = Model(self.n_constant, 0)

\* C10: no step of select() changes a field set at construction, and a
\* repeated select() returns what the first one returned.
C10_SelectorUnchanged ==
    /\ [][self' = self /\ cls' = cls]_vars
    /\ [](Returned /\ calls >= 2 => ret = firstRet)

\* A second cross-validation search has run to its end and returned a model
\* fitted on a training split.
C10_Witness ==
    /\ Returned /\ calls = 2 /\ cls = "SelectorCV"
    /\ ret.data > 0
    /\ ret = firstRet
====
